---------------------------- MODULE Spec2Model ----------------------------
(***************************************************************************)
(* A model of the xastropy utilities: the galaxy-field helper              *)
(* (xastropy/cgm/field.py), the continuum dictionary                       *)
(* (xastropy/spec/continuum.py) and the LLS fitting GUI                    *)
(* (xastropy/xguis/xfitllsgui.py).                                         *)
(*                                                                         *)
(* Numbers are integers: redshifts are held in thousandths (Zm = 1000*Z),  *)
(* sky coordinates in sixths of a degree, velocities in m/s, lengths in    *)
(* pc.  Inequalities between quotients are decided by cross-multiplying,   *)
(* which is exact for the positive denominators that occur.                *)
(***************************************************************************)
EXTENDS Integers, Sequences, FiniteSets, TLC

VARIABLES field,   \* the attributes of one IgmGalaxyField
          ret,     \* what the last operation returned or raised
          python,  \* the major version of the interpreter that runs the code
          cd,      \* the last call of init_conti_dict: arguments and outcome
          run,     \* the last call of run_fitlls: arguments and outcome
          gui,     \* the attributes of one XFitLLSGUI
          ev,      \* the last GUI event (construction, key, button) and its outcome
          disk     \* the JSON file that the Write button leaves behind

vars == <<field, ret, python, cd, run, gui, ev, disk>>

(***************************************************************************)
(* Bounds of the model                                                     *)
(***************************************************************************)
MaxGal == 2       \* rows of the galaxies table
MaxRows == 3      \* rows of the targets and observing tables together

(***************************************************************************)
(* Helpers                                                                 *)
(***************************************************************************)
Abs(x) == IF x < 0 THEN -x ELSE x

Max2(a, b) == IF a >= b THEN a ELSE b

\* numpy fancy indexing tab[idx] with idx an ascending index array (np.where)
Take(seq, idx) ==
  LET F[i \in 0..Len(seq)] ==
        IF i = 0 THEN <<>>
        ELSE IF i \in idx THEN Append(F[i-1], seq[i]) ELSE F[i-1]
  IN F[Len(seq)]

\* the ascending index array np.where(...)[0] as a sequence
WhereSeq(n, idx) == Take([i \in 1..n |-> i], idx)

\* astropy's masked element
Masked == "--"

\* Python None for a table attribute, and a filled table
None == [isNone |-> TRUE, rows |-> <<>>]

Table(rows) == [isNone |-> FALSE, rows |-> rows]

(***************************************************************************)
(* Input domains                                                           *)
(***************************************************************************)
MaskNames == {"m1", "m2"}

\* three positions: the field centre, one sharing its RA, one sharing its DEC
TargetRows ==
  {[TARG_RA |-> p[1], TARG_DEC |-> p[2], MASK_NAME |-> m] :
     p \in {<<0, 0>>, <<0, 1>>, <<1, 0>>}, m \in MaskNames \cup {Masked}}

ObsRows == [MASK_NAME : MaskNames, DATE_OBS : {"d1", Masked}]

GalaxyRows == [RA : {0, 1}, DEC : {0, 1}, Z : {21, 22, 23, 24}]

Thetas == {1, 2}

\* z = 0.022; R in pc (270 kpc, the default 300 kpc); dv_tol in m/s
AssocZ == {22}

AssocR == {270000, 300000}

AssocDv == {293339, 500000}

(***************************************************************************)
(* continuum.init_conti_dict.  Norm and the pivots are whole numbers, the  *)
(* tilts are held in tenths.                                               *)
(***************************************************************************)
\* the interpreters the modules declare themselves for (from __future__ ...)
PythonVersions == {2, 3}

\* an optional argument: Python None, or a value
NoneArg == [given |-> FALSE, val |-> 0]

Some(v) == [given |-> TRUE, val |-> v]

\* no call made yet
NoCall == [op |-> "init", kind |-> "None", dict |-> <<>>, arg |-> <<>>]

\* dict.pop(key)
Pop(d, key) == [k \in DOMAIN d \ {key} |-> d[k]]

\* the comparison piv_wv2 > piv_wv.  With piv_wv2 None, Python 2 orders None
\* below every number (False) and Python 3 raises TypeError.
Piv2Greater(py, piv_wv2, piv_wv) ==
  IF piv_wv2.given THEN (IF piv_wv2.val > piv_wv THEN "True" ELSE "False")
  ELSE IF py = 2 THEN "False" ELSE "TypeError"

init_conti_dict(py, a) ==
  LET full == [Norm |-> a.Norm, tilt |-> a.tilt, piv_wv |-> a.piv_wv,
               piv_wv2 |-> a.piv_wv2.val, tilt2 |-> a.tilt2, igm |-> a.igm,
               fN_gamma |-> a.fN_gamma, LL_flatten |-> a.LL_flatten]
      conti_dict == IF ~a.piv_wv2.given THEN Pop(full, "piv_wv2") ELSE full
      gt == Piv2Greater(py, a.piv_wv2, a.piv_wv)
  IN IF gt = "TypeError" THEN [kind |-> "TypeError", dict |-> <<>>]
     ELSE IF gt = "True" THEN [kind |-> "ValueError", dict |-> <<>>]
     ELSE [kind |-> "ok", dict |-> conti_dict]

\* the arguments tried: the defaults of the signature and values the GUI uses
ContiArgs ==
  [Norm : {0, 1}, tilt : {0, 1}, tilt2 : {0}, piv_wv : {0, 915, 1215},
   piv_wv2 : {NoneArg, Some(0), Some(915), Some(1215)}, igm : {"None", "True"},
   fN_gamma : {-1}, LL_flatten : {"True"}]

(***************************************************************************)
(* xfitllsgui.run_fitlls and its argparse parser                           *)
(***************************************************************************)
\* the optional arguments of the parser; -smooth and -zqso have type=float
Flags == {"-out_file", "-smooth", "-lls_fit_file", "-zqso"}

FloatFlags == {"-smooth", "-zqso"}

\* strings that float() accepts, with their values in tenths
FloatOf == [s \in {"3.0", "2.5"} |-> IF s = "3.0" THEN 30 ELSE 25]

\* the attribute of the namespace that a flag sets
Dest(flag) ==
  CASE flag = "-out_file" -> "out_file"
    [] flag = "-smooth" -> "smooth"
    [] flag = "-lls_fit_file" -> "lls_fit_file"
    [] OTHER -> "zqso"

\* the namespace before parsing: every attribute None
EmptyNamespace ==
  [in_file |-> NoneArg, out_file |-> NoneArg, smooth |-> NoneArg,
   lls_fit_file |-> NoneArg, zqso |-> NoneArg, error |-> FALSE]

\* ArgumentParser.parse_args(tokens): a flag takes the next token as its value
\* (converted by float for the float flags), the first other token is in_file,
\* a further one is an unrecognized argument; an error exits (SystemExit)
RECURSIVE ParseFrom(_, _, _)
ParseFrom(tokens, i, ns) ==
  IF ns.error THEN ns
  ELSE IF i > Len(tokens)
    THEN (IF ns.in_file.given THEN ns ELSE [ns EXCEPT !.error = TRUE])
  ELSE IF tokens[i] \in Flags
    THEN IF i = Len(tokens) \/ tokens[i+1] \in Flags
           THEN [ns EXCEPT !.error = TRUE]
         ELSE IF tokens[i] \in FloatFlags
           THEN IF tokens[i+1] \in DOMAIN FloatOf
                  THEN ParseFrom(tokens, i + 2,
                                 [ns EXCEPT ![Dest(tokens[i])] = Some(FloatOf[tokens[i+1]])])
                ELSE [ns EXCEPT !.error = TRUE]
         ELSE ParseFrom(tokens, i + 2, [ns EXCEPT ![Dest(tokens[i])] = Some(tokens[i+1])])
  ELSE IF ns.in_file.given THEN [ns EXCEPT !.error = TRUE]
  ELSE ParseFrom(tokens, i + 1, [ns EXCEPT !.in_file = Some(tokens[i])])

parse_args(tokens) == ParseFrom(tokens, 1, EmptyNamespace)

\* largs = ['1'] + [iargs for iargs in args]
LArgs(args) == <<"1">> \o args

\* nothing run yet
NoRun == [op |-> "init", kind |-> "None", args |-> <<>>, asMain |-> FALSE, gui |-> <<>>]

\* run_fitlls(*args) with string arguments.  asMain: the module runs as
\* __main__, which alone imports sys; no args means the command line (argv).
run_fitlls(args, argv, asMain) ==
  LET pargs == IF Len(args) = 0 THEN parse_args(argv) ELSE parse_args(LArgs(args))
  IN IF pargs.error THEN [kind |-> "SystemExit", gui |-> <<>>]
     ELSE IF ~asMain THEN [kind |-> "NameError", gui |-> <<>>]
     ELSE [kind |-> "ok",
           gui |-> [in_file |-> pargs.in_file.val, outfil |-> pargs.out_file,
                    smooth |-> pargs.smooth, lls_fit_file |-> pargs.lls_fit_file,
                    zqso |-> pargs.zqso]]

(***************************************************************************)
(* IgmGalaxyField                                                          *)
(***************************************************************************)
\* const.c in m/s
CLight == 299792458

\* flat small-field stand-in for SkyCoord.separation, in sixths of a degree
Separation(coord, ra, dec) == Max2(Abs(ra - coord.ra), Abs(dec - coord.dec))

\* Quantity.to('arcmin') of an angle held in sixths of a degree
ToArcmin(a6) == 10 * a6

\* cosmo.kpc_comoving_per_arcmin(Z), in pc per arcmin (WMAP9, low redshift)
KpcComovingPerArcmin(Zm) ==
  CASE Zm = 21 -> 26100
    [] Zm = 22 -> 27594
    [] Zm = 23 -> 28600
    [] OTHER   -> 29800

\* calc_rhoimpact for one row: rho = ang_sep * kpc_amin / (1+Z), kept as the
\* quotient num/den in pc
RhoImpact(f, g) ==
  [num |-> ToArcmin(Separation(f.coord, g.RA, g.DEC)) * KpcComovingPerArcmin(g.Z) * 1000,
   den |-> 1000 + g.Z]

calc_rhoimpact(f, obj) == [i \in 1..Len(obj) |-> RhoImpact(f, obj[i])]

\* rho < R
RhoBelow(rho, R) == rho.num < R * rho.den

\* np.abs(dv_gal) < dv_tol with dv_gal = c*(Z - z)/(1+z)
DvWithin_le(Zm, zm, dv_tol) == Abs(CLight * (Zm - zm)) <= dv_tol * (1000 + zm)

DvWithin(Zm, zm, dv_tol) == Abs(CLight * (Zm - zm)) < dv_tol * (1000 + zm)

\* the value of a call: kind is "ok" (a value), "None", or the exception raised
NoRet ==
  [op |-> "init", kind |-> "None", tab |-> <<>>, rho |-> <<>>, dict |-> <<>>,
   dates |-> <<>>, arg |-> <<>>]

get_associated_galaxies(f, z, R, dv_tol) ==
  LET gal == f.galaxies.rows
      gdz == {i \in 1..Len(gal) : DvWithin(gal[i].Z, z, dv_tol)}
      gdz_gal == Take(gal, gdz)
      rho == calc_rhoimpact(f, gdz_gal)
      gd_rho == {i \in 1..Len(rho) : RhoBelow(rho[i], R)}
  IN IF gdz = {} THEN [kind |-> "None", tab |-> <<>>, rho |-> <<>>]
     ELSE IF gd_rho = {} THEN [kind |-> "None", tab |-> <<>>, rho |-> <<>>]
     ELSE [kind |-> "ok", tab |-> Take(gdz_gal, gd_rho), rho |-> Take(rho, gd_rho)]

\* get_mask_obsdate: ValueError without an observing table; mt[0] raises
\* IndexError when no row carries the mask name
get_mask_obsdate(f, mask_name) ==
  IF f.observing.isNone THEN [kind |-> "ValueError", dates |-> <<>>]
  ELSE
    LET obs == f.observing.rows
        mt == WhereSeq(Len(obs), {i \in 1..Len(obs) : obs[i].MASK_NAME = mask_name})
    IN IF Len(mt) = 0 THEN [kind |-> "IndexError", dates |-> <<>>]
       ELSE IF obs[mt[1]].DATE_OBS = Masked THEN [kind |-> "ok", dates |-> <<>>]
       ELSE [kind |-> "ok", dates |-> [k \in 1..Len(mt) |-> obs[mt[k]].DATE_OBS]]

\* the guard of get_observed and get_unobserved
NeedTables_and(f) == f.targets.isNone /\ f.observing.isNone

NeedTables(f) == f.targets.isNone \/ f.observing.isNone

\* np.where(sep < theta)[0]
GdSep_le(f, theta) ==
  {i \in 1..Len(f.targets.rows) :
     Separation(f.coord, f.targets.rows[i].TARG_RA, f.targets.rows[i].TARG_DEC) <= theta}

GdSep(f, theta) ==
  {i \in 1..Len(f.targets.rows) :
     Separation(f.coord, f.targets.rows[i].TARG_RA, f.targets.rows[i].TARG_DEC) < theta}

\* get_observed from "Generate mask" on, for a given subtab
ObservedOf(f, subtab) ==
  LET have_mask == {i \in 1..Len(subtab) : subtab[i].MASK_NAME # Masked}
      uni_masks == {subtab[i].MASK_NAME : i \in have_mask}
      seen == {m \in uni_masks : Len(get_mask_obsdate(f, m).dates) > 0}
      tmsk == {i \in have_mask : subtab[i].MASK_NAME \in seen}
  IN IF have_mask = {} THEN [kind |-> "None", tab |-> <<>>, dict |-> <<>>]
     ELSE IF \E m \in uni_masks : get_mask_obsdate(f, m).kind # "ok"
       THEN [kind |-> "IndexError", tab |-> <<>>, dict |-> <<>>]
     ELSE [kind |-> "ok", tab |-> Take(subtab, tmsk),
           dict |-> [m \in seen |-> get_mask_obsdate(f, m).dates]]

get_observed(f, theta) ==
  IF NeedTables(f) THEN [kind |-> "ValueError", tab |-> <<>>, dict |-> <<>>]
  ELSE IF GdSep(f, theta) = {} THEN [kind |-> "None", tab |-> <<>>, dict |-> <<>>]
  ELSE ObservedOf(f, Take(f.targets.rows, GdSep(f, theta)))

\* get_unobserved: unpacking the None that get_observed returns raises TypeError
get_unobserved(f, theta) ==
  IF NeedTables(f) THEN [kind |-> "ValueError", tab |-> <<>>]
  ELSE IF GdSep(f, theta) = {} THEN [kind |-> "None", tab |-> <<>>]
  ELSE
    LET subtab == Take(f.targets.rows, GdSep(f, theta))
        got == ObservedOf(f, subtab)
        obs_ra == {got.tab[k].TARG_RA : k \in 1..Len(got.tab)}
        tmsk == {kk \in 1..Len(subtab) : subtab[kk].TARG_RA \notin obs_ra}
    IN IF got.kind = "None" THEN [kind |-> "TypeError", tab |-> <<>>]
       ELSE IF got.kind # "ok" THEN [kind |-> got.kind, tab |-> <<>>]
       ELSE [kind |-> "ok", tab |-> Take(subtab, tmsk)]

\* IgmGalaxyField.__init__
FieldInit ==
  [coord |-> [ra |-> 0, dec |-> 0], igm |-> None, targets |-> None,
   galaxies |-> None, observing |-> None]

(***************************************************************************)
(* XFitLLSGUI: numbers.  Wavelengths are held in tenths of an Angstrom,    *)
(* redshifts in units of 1e-4, NHI in hundredths of a dex, the smoothing   *)
(* and the tilts in tenths.  Fluxes (the data, the continua, the models,   *)
(* Norm and the cursor's y) are held as natural logarithms in thousandths  *)
(* (0 is a flux of 1), so that products are sums and a power law is linear.*)
(***************************************************************************)
\* floor(a * 10^k / d) by long division
RECURSIVE LongDiv(_, _, _, _)
LongDiv(q, r, d, k) ==
  IF k = 0 THEN q ELSE LongDiv(10*q + ((10*r) \div d), (10*r) % d, d, k - 1)

FixDiv(a, d, k) == LongDiv(a \div d, a % d, d, k)

\* 1 + z, for z in units of 1e-4
Opz(z) == 10000 + z

\* ln(w/p) in thousandths: the Pade form 2(w-p)/(w+p)
LnRatio(w, p) == (2000 * (w - p)) \div (w + p)

\* ln((w/p)**tilt) for a tilt in tenths
PowLog(w, p, tilt) == (tilt * LnRatio(w, p)) \div 10

\* ceil(10**(k/10)) for k = 1..40
Pow10Tenths ==
  <<2, 2, 2, 3, 4, 4, 6, 7, 8, 10, 13, 16, 20, 26, 32, 40, 51, 64, 80, 100,
    126, 159, 200, 252, 317, 399, 502, 631, 795, 1000, 1259, 1585, 1996, 2512,
    3163, 3982, 5012, 6310, 7944, 10000>>

\* floor(10*log10(d)) for 1 <= d <= 10000
Log10Tenths(d) == Cardinality({k \in DOMAIN Pow10Tenths : Pow10Tenths[k] <= d})

\* a float that may be NaN or -inf
Num(v) == [k |-> "num", v |-> v]

NaN == [k |-> "nan", v |-> 0]

NegInf == [k |-> "-inf", v |-> 0]

(***************************************************************************)
(* XFitLLSGUI: the spectrum.  read_spec gives the dispersion, flux and sig *)
(* arrays; here a grid of NPix pixels from 3600 A in steps of 8 A, flat at *)
(* flux 1 or with the absorption of one Lyman limit system at TrueZ.       *)
(***************************************************************************)
NPix == 73

W0 == 36000

DW == 80

\* numpy indices
Pixels == 0..(NPix - 1)

\* an array of NPix values, held as a sequence: pixel k is element k + 1
Array(f) == SubSeq(f, 1, NPix)

Px(arr, k) == arr[k + 1]

\* spec.dispersion
Wave == Array([i \in 1..NPix |-> W0 + DW * (i - 1)])

\* np.ones(len(spec.dispersion))
Ones == Array([i \in 1..NPix |-> 0])

\* rest wavelengths of the HI Lyman series (fill_lls_lines), Lya to Ly15
LymanSeries ==
  {12157, 10257, 9725, 9497, 9378, 9308, 9262, 9232, 9210, 9194, 9181, 9172,
   9164, 9158, 9153}

\* np.argmin(np.abs(spec.dispersion - w)) for w in units of 1e-5 A: the first
\* of the pixels nearest to w, which on this grid of equal steps is the
\* quotient below, kept inside the array
ArgMinWave(w) ==
  LET k == (w - W0 * 10000 + DW * 5000 - 1) \div (DW * 10000)
  IN IF k < 0 THEN 0 ELSE IF k > NPix - 1 THEN NPix - 1 ELSE k

\* the pixels that hold the Lyman lines of a system at redshift z
LinePixels(z) ==
  {k \in {(w * Opz(z) - W0 * 10000 + DW * 5000 - 1) \div (DW * 10000) : w \in LymanSeries} :
     k \in Pixels}

\* pixel k lies blueward of the Lyman limit (911.7 A) of a system at z
BelowLimit(k, z) == Px(Wave, k) * 10000 < 9117 * Opz(z)

Spectra == {"flat", "lls"}

TrueZ == 29837

\* log of a flux that is not positive
FloorDark == -100000

\* the pixels that the system in the "lls" spectrum absorbs
TruePixels == LinePixels(TrueZ) \cup {k \in Pixels : BelowLimit(k, TrueZ)}

Absorbed(s, k) == s = "lls" /\ k \in TruePixels

\* spec.flux
FluxOf(s) == Array([i \in 1..NPix |-> IF Absorbed(s, i - 1) THEN -3000 ELSE 0])

\* spec.flux - spec.sig*1.5
FloorOf(s) == Array([i \in 1..NPix |-> IF Absorbed(s, i - 1) THEN FloorDark ELSE -150])

\* np.median of an array of odd length
Median(arr) ==
  CHOOSE v \in {arr[k] : k \in DOMAIN arr} :
    /\ 2 * Cardinality({k \in DOMAIN arr : arr[k] < v}) < Cardinality(DOMAIN arr)
    /\ 2 * Cardinality({k \in DOMAIN arr : arr[k] > v}) < Cardinality(DOMAIN arr)

\* the least and the greatest of a set of numbers
SetMin(S) == CHOOSE m \in S : \A s \in S : m <= s

SetMax(S) == CHOOSE m \in S : \A s \in S : m >= s

\* get_telfer_spec(zqso, igm=True) rebinned to the spectrum: the quasar
\* template, which is not flat
TelferSpec == Array([i \in 1..NPix |-> 3 * (i - 1) - 60])

(***************************************************************************)
(* XFitLLSGUI: optical depth of the systems (igmlls.tau_multi_lls, an      *)
(* external routine): a saturated line where a Lyman line falls, the       *)
(* continuum opacity 10**(NHI - 17.19) blueward of the limit               *)
(***************************************************************************)
LineTau == 10000

TauLL(nhi) ==
  LET i == (nhi - 1419) \div 10
  IN IF i < 1 THEN 0 ELSE IF i > 40 THEN Pow10Tenths[40] ELSE Pow10Tenths[i]

\* the optical depth of one system at every pixel, given its line pixels
TauOn(sys, lines) ==
  Array([i \in 1..NPix |->
           IF sys.NHI.k # "num" THEN 0
           ELSE (IF i - 1 \in lines THEN LineTau ELSE 0)
                + (IF BelowLimit(i - 1, sys.zabs) THEN TauLL(sys.NHI.v) ELSE 0)])

TauLLS(sys) == TauOn(sys, LinePixels(sys.zabs))

\* the sum of two arrays
AddArrays(a, b) == Array([i \in 1..NPix |-> a[i] + b[i]])

RECURSIVE Pow10Dex(_)
RECURSIVE TauMulti(_)
TauMulti(systems) ==
  IF systems = <<>> THEN Ones
  ELSE AddArrays(TauLLS(Head(systems)), TauMulti(Tail(systems)))

\* a flux below 0.7: ln(0.7) = -0.3567
Below07(l) == l <= -357

\* the lines add_forest gives a forest system, with their rest wavelengths and
\* their optical depth at line centre for log NHI = 12 and b = 20 km/s
ForestLines ==
  <<[name |-> "HI 1215", wrest |-> 12157, tau12 |-> 38],
    [name |-> "HI 1025", wrest |-> 10257, tau12 |-> 6],
    [name |-> "HI 972", wrest |-> 9725, tau12 |-> 2]>>

\* 10**(NHI - 12) for the column densities of add_forest
Pow10Dex(nhi) == IF nhi <= 1200 THEN 1 ELSE 10 * Pow10Dex(nhi - 100)

\* lav.voigt_from_abslines(wa1, forest.lines, ret='tau'): the optical depth of
\* a forest system, at the pixel that holds each of its lines
ForestTau(forest) ==
  Array([i \in 1..NPix |->
     LET here == {k \in DOMAIN forest.lines :
                    (ForestLines[k].wrest * Opz(forest.zabs) - W0 * 10000 + DW * 5000 - 1)
                       \div (DW * 10000) = i - 1}
     IN IF here = {} THEN 0
        ELSE ForestLines[SetMin(here)].tau12 * Pow10Dex(forest.NHI)])

\* the loop on forest lines: all_tau_model += tau_Lyman
RECURSIVE TauForest(_)
TauForest(all_forest) ==
  IF all_forest = <<>> THEN Ones
  ELSE AddArrays(ForestTau(Head(all_forest)), TauForest(Tail(all_forest)))

(***************************************************************************)
(* continuum.get_telfer_spec.  Fluxes here are linear, in thousandths.     *)
(***************************************************************************)
\* telfer['wrest'], the rest wavelengths of the composite, in tenths of an
\* Angstrom: three below the Lyman limit, three within 3 A of 914 A, one in
\* the forest, and 1450 A where the composite is scaled
TelferWrest == <<9080, 9100, 9115, 9140, 9165, 9180, 12000, 14500>>

\* telfer['flux'] of the tables tried
TelferTables ==
  {t \in [1..Len(TelferWrest) -> {2000, 3000}] : t[6] = 3000 /\ t[7] = 3000 /\ t[8] = 2000}

\* telfer['flux']/scale[0], with scale the flux where wrest == 1450.
TelferScaled(t) ==
  LET scale == t[CHOOSE i \in DOMAIN TelferWrest : TelferWrest[i] = 14500]
  IN [i \in DOMAIN TelferWrest |-> (t[i] * 1000) \div scale]

\* telfer['wrest']*(1+zqso): the observed wavelengths
TelferWave(zqso) == [i \in DOMAIN TelferWrest |-> (TelferWrest[i] * Opz(zqso)) \div 10000]

\* telfer_spec.dispersion/(1+zqso)
RestWave(w, zqso) == (w * 10000) \div Opz(zqso)

\* np.exp(-teff) of xit.map_etl at a pixel: the mean transmission of the
\* intergalactic medium, lower at higher redshift and below the Lyman limit
IgmTrans(wrest, zqso) ==
  (IF wrest < 9117 THEN 400 ELSE 800) - (IF zqso > 20000 THEN 200 ELSE 0)

\* telfer_spec.flux[igm_wv] *= np.exp(-1.*np.array(ateff)), igm_wv where wrest < 1220
TelferIgm(flux, zqso) ==
  [i \in DOMAIN TelferWrest |->
     IF TelferWrest[i] < 12200 THEN (flux[i] * IgmTrans(TelferWrest[i], zqso)) \div 1000
     ELSE flux[i]]

\* wv_LL: the pixels within 3 A of 914 A in the rest frame
TelferNearLL(wave, zqso) ==
  {i \in DOMAIN wave : Abs(RestWave(wave[i], zqso) - 9140) < 30}

\* wv_low: the pixels below 911.7 A in the rest frame
TelferBelowLL(wave, zqso) == {i \in DOMAIN wave : RestWave(wave[i], zqso) < 9117}

\* the flattening: flux[wv_low] = np.median(flux[wv_LL])
TelferFlatten(flux, wave, zqso) ==
  LET wv_LL == TelferNearLL(wave, zqso)
      f_LL == Median([i \in wv_LL |-> flux[i]])
  IN [i \in DOMAIN flux |-> IF i \in TelferBelowLL(wave, zqso) THEN f_LL ELSE flux[i]]

get_telfer_spec(t, zqso, igm, fN_gamma, LL_flatten) ==
  LET wave == TelferWave(zqso)
      flux == TelferScaled(t)
      attenuated == TelferIgm(flux, zqso)
  IN [wave |-> wave,
      flux |-> IF igm
                 THEN (IF LL_flatten THEN TelferFlatten(attenuated, wave, zqso)
                       ELSE attenuated)
               ELSE flux]

(***************************************************************************)
(* continuum.wfc3_continuum: the choice of a model                         *)
(***************************************************************************)
\* the two quasars the selection skips
ExcludedQSO == {"J122836.05+510746.2", "J122015.50+460802.4"}

\* nwfc3 = len(wfc3_models_hdu)-1, for the extensions that follow the primary
nwfc3(hdus) == (Len(hdus) + 1) - 1

\* the models loaded: extensions range(1,nwfc3-1)
LoadModels(hdus) == [ii \in 1..(IF nwfc3(hdus) > 2 THEN nwfc3(hdus) - 2 ELSE 0) |-> hdus[ii]]

\* wfc_models[idx] of a Python list: valid from -len to len-1
ValidIndex(models, idx) == idx >= 0 - Len(models) /\ idx < Len(models)

\* the element a valid index names, negative ones counted from the end
ModelAt(models, idx) == models[(IF idx < 0 THEN idx + Len(models) ELSE idx) + 1]

\* the call up to the loop: with wfc3_indx given the model is taken at once
wfc3_begin(a) ==
  LET models == LoadModels(a.hdus)
  IN IF ~a.wfc3_indx.given THEN [kind |-> "loop", idx |-> NoneArg, models |-> models]
     ELSE IF ValidIndex(models, a.wfc3_indx.val)
       THEN [kind |-> "ok", idx |-> a.wfc3_indx, models |-> models]
     ELSE [kind |-> "IndexError", idx |-> a.wfc3_indx, models |-> models]

\* the values rstate.randint(0,nwfc3-1) may give: 0 .. nwfc3-2
RandInt(low, high) == low..(high - 1)

\* one turn of the while loop with the index drawn
wfc3_turn(a, models, idx) ==
  IF ~ValidIndex(models, idx) THEN [kind |-> "IndexError", idx |-> Some(idx), models |-> models]
  ELSE IF ModelAt(models, idx).TOTNHI > a.NHI_max
    THEN [kind |-> "loop", idx |-> Some(idx), models |-> models]
  ELSE IF ModelAt(models, idx).QSO \in ExcludedQSO
    THEN [kind |-> "loop", idx |-> Some(idx), models |-> models]
  ELSE [kind |-> "ok", idx |-> Some(idx), models |-> models]

(***************************************************************************)
(* XFitLLSGUI: the object                                                  *)
(***************************************************************************)
\* lls_model = None
NoModel == [isNone |-> TRUE, nan |-> FALSE, L |-> Ones, fwhm |-> NoneArg]

\* no GUI constructed
NoGui ==
  [built |-> FALSE, spec |-> "flat", outfil |-> "LLS_fit.json", count_lls |-> 0,
   lls_model |-> NoModel, smooth |-> NoneArg, base_continuum |-> Ones,
   all_forest |-> <<>>, flag_write |-> FALSE, zqso |-> NoneArg, conti_dict |-> <<>>,
   continuum |-> Ones, full_model |-> [nan |-> FALSE, L |-> Ones],
   all_abssys |-> <<>>, sel |-> 0, bad_model |-> {}]

\* the comparison self.smooth > 0; with smooth None, Python 2 answers False
\* and Python 3 raises TypeError
SmoothPositive(py, smooth) ==
  IF smooth.given THEN (IF smooth.val > 0 THEN "True" ELSE "False")
  ELSE IF py = 2 THEN "False" ELSE "TypeError"

update_conti(g) ==
  LET cdict == g.conti_dict
      two == "piv_wv2" \in DOMAIN cdict
      flux == Array([i \in 1..NPix |->
                 IF two /\ Wave[i] < cdict.piv_wv2
                   THEN g.base_continuum[i] + cdict.Norm
                        + PowLog(Wave[i], cdict.piv_wv2, cdict.tilt2)
                 ELSE g.base_continuum[i] + cdict.Norm
                      + PowLog(Wave[i], cdict.piv_wv, cdict.tilt)])
  IN [g EXCEPT !.continuum = flux,
               !.full_model =
                  IF g.lls_model.isNone THEN @
                  ELSE [nan |-> g.lls_model.nan,
                        L |-> Array([i \in 1..NPix |-> g.lls_model.L[i] + flux[i]])]]

update_model(py, g) ==
  IF Len(g.all_abssys) = 0
    THEN [kind |-> "ok", gui |-> [g EXCEPT !.lls_model = NoModel]]
  ELSE
    LET pos == SmoothPositive(py, g.smooth)
        nan == \E i \in DOMAIN g.all_abssys : g.all_abssys[i].NHI.k = "nan"
        tau == AddArrays(TauMulti(g.all_abssys), TauForest(g.all_forest))
        flux == Array([i \in 1..NPix |-> 0 - tau[i]])
        model == [isNone |-> FALSE, nan |-> nan, L |-> flux,
                  fwhm |-> IF pos = "True" THEN g.smooth ELSE NoneArg]
        full == Array([i \in 1..NPix |-> flux[i] + g.continuum[i]])
        floor == FloorOf(g.spec)
        bad == {k \in Pixels : /\ ~nan
                               /\ Below07(Px(flux, k))
                               /\ Px(full, k) < Px(floor, k)}
    IN IF pos = "TypeError" THEN [kind |-> "TypeError", gui |-> g]
       ELSE [kind |-> "ok",
             gui |-> [g EXCEPT !.lls_model = model,
                               !.full_model = [nan |-> nan, L |-> full],
                               !.bad_model = bad]]

add_LLS(py, g, z, NHI, bval, comment, model) ==
  LET new_sys == [zabs |-> z, NHI |-> NHI, bval |-> bval, comment |-> comment,
                  label |-> g.count_lls + 1]
      g1 == [g EXCEPT !.count_lls = @ + 1,
                      !.all_abssys = Append(@, new_sys),
                      !.sel = Len(g.all_abssys) + 1]
  IN IF model THEN update_model(py, g1) ELSE [kind |-> "ok", gui |-> g1]

\* AbsSysWidget.remove_item(idx)
RemoveAt(seq, idx) == [i \in 1..(Len(seq) - 1) |-> IF i < idx THEN seq[i] ELSE seq[i + 1]]

\* the file the Write button leaves: nothing yet
NoDisk == [exists |-> FALSE, text |-> <<>>, from |-> NoGui]

\* XFitLLSGUI.__init__ without a fit file
InitFresh(py, ispec, outfil, smooth, zqso) ==
  LET g0 == [NoGui EXCEPT !.built = TRUE, !.spec = ispec,
                          !.outfil = IF outfil.given THEN outfil.val ELSE "LLS_fit.json"]
      cdr == init_conti_dict(py,
               [Norm |-> Median(FluxOf(ispec)), tilt |-> 0, tilt2 |-> 0,
                piv_wv |-> (12150 * Opz(zqso.val)) \div 10000, piv_wv2 |-> NoneArg,
                igm |-> "True", fN_gamma |-> -1, LL_flatten |-> "True"])
      g1 == [g0 EXCEPT !.conti_dict = [cdr.dict EXCEPT !.piv_wv = (9150 * Opz(zqso.val)) \div 10000],
                       !.zqso = zqso,
                       !.continuum = TelferSpec,
                       !.base_continuum = TelferSpec]
      g2 == [g0 EXCEPT !.conti_dict = cdr.dict,
                       !.zqso = NoneArg,
                       !.continuum = Ones,
                       !.base_continuum = Ones]
      g3 == update_conti(IF zqso.given THEN g1 ELSE g2)
  IN IF ~zqso.given THEN [kind |-> "TypeError", gui |-> NoGui]
     ELSE IF cdr.kind # "ok" THEN [kind |-> cdr.kind, gui |-> NoGui]
     ELSE [kind |-> "ok",
           gui |-> [g3 EXCEPT !.full_model = [nan |-> FALSE, L |-> Ones],
                              !.smooth = smooth]]

(***************************************************************************)
(* XFitLLSGUI.write_out and init_LLS: the JSON fit file                    *)
(***************************************************************************)
\* '{:d}'.format(n): the decimal digits of n
RECURSIVE Digits(_)
Digits(n) == IF n < 10 THEN <<n>> ELSE Append(Digits(n \div 10), n % 10)

\* the order of strings
RECURSIVE StrLess(_, _)
StrLess(a, b) ==
  IF a = <<>> THEN b # <<>>
  ELSE IF b = <<>> THEN FALSE
  ELSE IF Head(a) # Head(b) THEN Head(a) < Head(b)
  ELSE StrLess(Tail(a), Tail(b))

\* str(comment).strip()
Strip(comment) == IF comment = " None " THEN "None" ELSE comment

\* out_dict['LLS']: one entry for each system, under the key of its position
LLSDict(systems) ==
  {[key |-> Digits(kk), z |-> systems[kk].zabs, NHI |-> systems[kk].NHI,
    bval |-> systems[kk].bval, comment |-> Strip(systems[kk].comment)] :
     kk \in 1..Len(systems)}

\* json.dumps(..., sort_keys=True): the entries of a dict in the order of their keys
RECURSIVE SortKeys(_)
SortKeys(entries) ==
  IF entries = {} THEN <<>>
  ELSE LET first == CHOOSE e \in entries :
                      \A o \in entries \ {e} : StrLess(e.key, o.key)
       IN <<first>> \o SortKeys(entries \ {first})

\* write_out: the file is opened (and emptied), then the text is built with
\* unicode(), a builtin of Python 2 only
write_out(py, g) ==
  IF py = 3 THEN [kind |-> "NameError", gui |-> g,
                  disk |-> [exists |-> TRUE, text |-> <<>>, from |-> g]]
  ELSE [kind |-> "ok", gui |-> [g EXCEPT !.flag_write = TRUE],
        disk |-> [exists |-> TRUE,
                  text |-> <<[LLS |-> SortKeys(LLSDict(g.all_abssys)),
                              conti_model |-> g.conti_dict,
                              conti |-> g.base_continuum,
                              spec_file |-> g.spec,
                              smooth |-> g.smooth,
                              zqso |-> g.zqso]>>,
                  from |-> g]]

\* the orders in which a dict of n entries may be walked
Orders(n) == {o \in [1..n -> 1..n] : \A i, j \in 1..n : o[i] = o[j] => i = j}

\* the slot of a one-digit key in the 8-slot table that a CPython 2 dict of at
\* most 5 entries has: the low bits of the string hash, ord(c) XOR len
Slot(key) == (IF key[1] % 2 = 0 THEN key[1] + 1 ELSE key[1] - 1) % 8

\* the entries (by position in the file) in the order of their slots
RECURSIVE SlotOrder(_, _)
SlotOrder(entries, left) ==
  IF left = {} THEN <<>>
  ELSE LET first == CHOOSE i \in left :
                      \A o \in left \ {i} : Slot(entries[i].key) < Slot(entries[o].key)
       IN <<first>> \o SlotOrder(entries, left \ {first})

\* lls_dict['LLS'].keys(): a Python 2 dict is walked in the order of its hash
\* table (any order once the table has grown); since Python 3.7 a dict keeps
\* the order of the file
KeysOrders(py, entries) ==
  IF py = 2 /\ Len(entries) <= 5 THEN {SlotOrder(entries, DOMAIN entries)}
  ELSE IF py = 2 THEN Orders(Len(entries))
  ELSE {[i \in 1..Len(entries) |-> i]}

\* the add_LLS(..., model=False) of init_LLS, entry by entry
RECURSIVE AddAll(_, _, _, _)
AddAll(py, g, entries, order) ==
  IF order = <<>> THEN g
  ELSE LET e == entries[Head(order)]
       IN AddAll(py, add_LLS(py, g, e.z, e.NHI, e.bval, e.comment, FALSE).gui,
                 entries, Tail(order))

init_LLS(py, g, lls_dict, order) ==
  [AddAll(py, [g EXCEPT !.conti_dict = lls_dict.conti_model,
                        !.base_continuum = lls_dict.conti,
                        !.continuum = Ones],
          lls_dict.LLS, order)
     EXCEPT !.smooth = lls_dict.smooth, !.zqso = lls_dict.zqso]

\* XFitLLSGUI.__init__ with lls_fit_file
InitFromFile(py, ispec, outfil, smooth, file, order) ==
  IF file.text = <<>> THEN [kind |-> "ValueError", gui |-> NoGui]
  ELSE
    LET g0 == [NoGui EXCEPT !.built = TRUE, !.spec = ispec,
                            !.outfil = IF outfil.given THEN outfil.val ELSE "LLS_fit.json"]
        g1 == update_conti(init_LLS(py, g0, file.text[1], order))
    IN update_model(py, [g1 EXCEPT !.full_model = [nan |-> FALSE, L |-> Ones],
                                   !.smooth = IF @.given THEN @ ELSE smooth])

(***************************************************************************)
(* XFitLLSGUI.on_key                                                       *)
(***************************************************************************)
\* a normalisation that forgets the tilt: y over the base continuum alone
KeyC_Norm_flat(g, x, y) == y - Px(g.base_continuum, ArgMinWave(x * 10000))

\* 'C': the continuum passes through the cursor
KeyC_Norm(g, x, y) ==
  LET imin == ArgMinWave(x * 10000)
  IN y - (Px(g.base_continuum, imin)
          + PowLog(x, g.conti_dict.piv_wv, g.conti_dict.tilt))

\* 'A': z = event.xdata/911.7633 - 1.
KeyA_z(x) == FixDiv(x * 1000, 9117633, 4) - 10000

\* the selected system (get_sngl_sel_sys); 0 stands for None
get_sngl_sel_sys(g) == g.sel

\* '6'..'9': z = event.xdata/1215.6701 - 1.
KeyForest_z(x) == FixDiv(x * 1000, 12156701, 4) - 10000

\* NHI_dict = {'6':12.,'7':13.,'8':14.,'9':15.}
NHI_dict == [inp \in {"6", "7", "8", "9"} |->
               CASE inp = "6" -> 1200 [] inp = "7" -> 1300 [] inp = "8" -> 1400
                 [] OTHER -> 1500]

add_forest(g, inp, z) ==
  LET forest == [zabs |-> z, NHI |-> NHI_dict[inp],
                 lines |-> [k \in DOMAIN ForestLines |->
                              [name |-> ForestLines[k].name, N |-> NHI_dict[inp],
                               b |-> 20, z |-> z]]]
  IN [g EXCEPT !.all_forest = Append(@, forest)]

(***************************************************************************)
(* XFitLLSGUI.auto_plls                                                    *)
(***************************************************************************)
\* a numpy index: negative indices count from the end
Wrap(i) == IF i < 0 THEN i + NPix ELSE i

\* NHI = 17.29 + np.log10(-1.*np.log(y/conti.flux.value[ximn]))
GuessNHI(y, conti, ximn) ==
  LET d == Px(conti.L, ximn) - y
  IN IF conti.nan \/ d < 0 THEN NaN
     ELSE IF d = 0 THEN NegInf
     ELSE Num(1729 + 10 * Log10Tenths(d) - 300)

\* the result of a press that raised
PllsError(kind) ==
  [kind |-> kind, found |-> FALSE, nbad |-> 0, zbest |-> 0, NHI |-> NaN, z |-> 0,
   nroll |-> 0, ibest |-> 0, ximn |-> 0]

\* more over-absorbed pixels than this at the best offset: no pLLS
BadMax == 10

\* conti: the full model once there are systems, else the continuum
PllsConti(g) ==
  IF Len(g.all_abssys) > 0 THEN g.full_model ELSE [nan |-> FALSE, L |-> g.continuum]

\* zmin (next highest LLS or zem); self.zqso + 0.01 with zqso None is a TypeError
PllsZmin(g, z) ==
  LET zlls == {zz \in {g.all_abssys[i].zabs : i \in 1..Len(g.all_abssys)} : zz > z}
  IN IF Len(g.all_abssys) # 0 /\ zlls # {} THEN Some(SetMin(zlls) - 100)
     ELSE IF g.zqso.given THEN Some(g.zqso.val + 100)
     ELSE NoneArg

\* apix: wrest > 914 and dispersion < (1+zmin)*1026
PllsApix(z, zmin) ==
  {k \in Pixels : /\ Px(Wave, k) * 10000 > 9140 * Opz(z)
                  /\ Px(Wave, k) * 10000 < 10260 * Opz(zmin)}

\* lls_flux: the template exp(-tau) of the toy system, convolved to 3 pixels
PllsTau(z, NHI) == TauLLS([zabs |-> z, NHI |-> NHI])

PllsTemplate(tau) == Array([i \in 1..NPix |-> 0 - tau[i]])

\* roll_flux[j]: the template on apix between two pads of nroll ones
RollFlux(lls_flux, amin, amax, nroll, j) ==
  IF j >= nroll /\ j <= nroll + amax - amin THEN Px(lls_flux, amin + j - nroll) ELSE 0

\* bad[kk]: the pixels where the template, rolled by kk (np.roll(a, kk)[j] is
\* a[(j - kk) mod len]), is below 0.7 and the model is below flux - 1.5 sig
PllsBad(conti, floor, lls_flux, NHI, amin, amax, nroll, kk) ==
  LET len == 2 * nroll + amax - amin + 1
  IN Cardinality({j \in 0..(len - 1) :
       /\ NHI.k = "num"
       /\ Below07(RollFlux(lls_flux, amin, amax, nroll, (j - kk) % len))
       /\ ~conti.nan
       /\ RollFlux(lls_flux, amin, amax, nroll, (j - kk) % len)
            + Px(conti.L, Wrap(amin - nroll + j))
          < Px(floor, Wrap(amin - nroll + j))})

\* an argmin that takes the last of the least values
PllsBest_last(ximn, z, NHI, nroll, bad) ==
  LET ibest == SetMax({kk \in 0..(nroll - 1) :
                         bad[kk + 1] = SetMin({bad[i] : i \in 1..nroll})})
  IN [kind |-> "ok", found |-> bad[ibest + 1] < BadMax, nbad |-> bad[ibest + 1],
      zbest |-> FixDiv(Px(Wave, IF ibest + ximn >= NPix THEN NPix - 1 ELSE ibest + ximn),
                       9117, 4) - 10000,
      NHI |-> NHI, z |-> z, nroll |-> nroll, ibest |-> ibest, ximn |-> ximn]

\* np.argmin(bad), the offset, and the redshift of the pixel it stands for
PllsBest(ximn, z, NHI, nroll, bad) ==
  LET ibest == SetMin({kk \in 0..(nroll - 1) :
                         bad[kk + 1] = SetMin({bad[i] : i \in 1..nroll})})
  IN IF ibest + ximn >= NPix
       THEN [PllsError("IndexError") EXCEPT !.z = z, !.nroll = nroll, !.ibest = ibest,
                                            !.ximn = ximn]
     ELSE [kind |-> "ok", found |-> bad[ibest + 1] < BadMax, nbad |-> bad[ibest + 1],
           zbest |-> FixDiv(Px(Wave, ibest + ximn), 9117, 4) - 10000, NHI |-> NHI,
           z |-> z, nroll |-> nroll, ibest |-> ibest, ximn |-> ximn]

\* the padded window gdpix = arange(amin - nroll, amax + nroll + 1)
PllsRoll(conti, floor, lls_flux, ximn, z, NHI, amin, amax, nroll) ==
  IF nroll < 0 THEN PllsError("ValueError")
  ELSE IF amax + nroll >= NPix \/ amin - nroll < 0 - NPix THEN PllsError("IndexError")
  ELSE IF nroll = 0 THEN PllsError("ValueError")
  ELSE PllsBest(ximn, z, NHI, nroll,
         SubSeq([i \in 1..nroll |->
                   PllsBad(conti, floor, lls_flux, NHI, amin, amax, nroll, i - 1)],
                1, nroll))

\* nroll, which may not exceed the length of the spectrum
PllsWindow(g, ximn, z, NHI, apix, nroll) ==
  IF apix = {} THEN PllsError("ValueError")
  ELSE PllsRoll(PllsConti(g), FloorOf(g.spec), PllsTemplate(PllsTau(z, NHI)), ximn, z, NHI,
                SetMin(apix), SetMax(apix),
                IF SetMax(apix) + nroll > NPix THEN NPix - SetMax(apix) - 1 ELSE nroll)

PllsFromClick(g, ximn, z, NHI, zmin) ==
  IF ~zmin.given THEN PllsError("TypeError")
  ELSE PllsWindow(g, ximn, z, NHI, PllsApix(z, zmin.val),
                  ArgMinWave(9117 * Opz(zmin.val)) - ArgMinWave(9117 * Opz(z)))

auto_plls(g, x, y) ==
  PllsFromClick(g, ArgMinWave(x * 10000), FixDiv(x, 9117, 4) - 10000,
                GuessNHI(y, PllsConti(g), ArgMinWave(x * 10000)),
                PllsZmin(g, FixDiv(x, 9117, 4) - 10000))

\* the result of no press
NoPlls == PllsError("None")

\* the arguments of a construction: none
NoNew == [ispec |-> "", zqso |-> NoneArg, smooth |-> NoneArg, lls_fit_file |-> NoneArg]

\* no event yet
NoEv ==
  [op |-> "init", key |-> "", x |-> 0, y |-> 0, kind |-> "None", n |-> 0,
   new |-> NoNew, plls |-> NoPlls]

(***************************************************************************)
(* Actions on the field.  The tables are attributes the caller assigns;    *)
(* they grow here one row at a time.                                       *)
(***************************************************************************)
FillGalaxies ==
  /\ Len(field.galaxies.rows) < MaxGal
  /\ \E g \in GalaxyRows :
       field' = [field EXCEPT !.galaxies = Table(Append(field.galaxies.rows, g))]
  /\ ret' = [NoRet EXCEPT !.op = "fill"]

FillTargets ==
  /\ Len(field.targets.rows) + Len(field.observing.rows) < MaxRows
  /\ \E t \in TargetRows :
       field' = [field EXCEPT !.targets = Table(Append(field.targets.rows, t))]
  /\ ret' = [NoRet EXCEPT !.op = "fill"]

FillObserving ==
  /\ Len(field.targets.rows) + Len(field.observing.rows) < MaxRows
  /\ \E o \in ObsRows :
       field' = [field EXCEPT !.observing = Table(Append(field.observing.rows, o))]
  /\ ret' = [NoRet EXCEPT !.op = "fill"]

GetAssociatedGalaxies ==
  /\ ~field.galaxies.isNone
  /\ \E z \in AssocZ, R \in AssocR, dv_tol \in AssocDv :
       LET r == get_associated_galaxies(field, z, R, dv_tol)
       IN ret' = [NoRet EXCEPT !.op = "get_associated_galaxies", !.kind = r.kind,
                               !.tab = r.tab, !.rho = r.rho,
                               !.arg = [z |-> z, R |-> R, dv_tol |-> dv_tol]]
  /\ UNCHANGED field

GetObserved ==
  /\ \E theta \in Thetas :
       LET r == get_observed(field, theta)
       IN ret' = [NoRet EXCEPT !.op = "get_observed", !.kind = r.kind, !.tab = r.tab,
                               !.dict = r.dict,
                               !.arg = [theta |-> theta]]
  /\ UNCHANGED field

GetUnobserved ==
  /\ \E theta \in Thetas :
       LET r == get_unobserved(field, theta)
       IN ret' = [NoRet EXCEPT !.op = "get_unobserved", !.kind = r.kind, !.tab = r.tab,
                               !.arg = [theta |-> theta]]
  /\ UNCHANGED field

GetMaskObsdate ==
  /\ \E mask \in MaskNames :
       LET r == get_mask_obsdate(field, mask)
       IN ret' = [NoRet EXCEPT !.op = "get_mask_obsdate", !.kind = r.kind,
                               !.dates = r.dates,
                               !.arg = [mask |-> mask]]
  /\ UNCHANGED field

InitField ==
  /\ field = FieldInit
  /\ ret = NoRet
  /\ python = 2
  /\ cd = NoCall
  /\ run = NoRun
  /\ gui = NoGui
  /\ ev = NoEv
  /\ disk = NoDisk

\* the galaxies of a field and their association with an absorber
NextGal == (FillGalaxies \/ GetAssociatedGalaxies) /\ UNCHANGED <<python, cd, run, gui, ev, disk>>

SpecGal == InitField /\ [][NextGal]_vars

\* the targets and observing tables of a field
NextField ==
  (FillTargets \/ FillObserving \/ GetObserved \/ GetUnobserved \/ GetMaskObsdate)
  /\ UNCHANGED <<python, cd, run, gui, ev, disk>>

SpecField == InitField /\ [][NextField]_vars

\* calls of init_conti_dict under either interpreter
InitContiDict ==
  /\ \E a \in ContiArgs :
       LET r == init_conti_dict(python, a)
       IN cd' = [op |-> "init_conti_dict", kind |-> r.kind, dict |-> r.dict, arg |-> a]
  /\ UNCHANGED <<field, ret, python, run, gui, ev, disk>>

InitConti ==
  /\ field = FieldInit
  /\ ret = NoRet
  /\ python \in PythonVersions
  /\ cd = NoCall
  /\ run = NoRun
  /\ gui = NoGui
  /\ ev = NoEv
  /\ disk = NoDisk

NextConti == InitContiDict

SpecConti == InitConti /\ [][NextConti]_vars

\* calls of get_telfer_spec
TelferArgs ==
  [telfer : TelferTables, zqso : {0, 30000}, igm : BOOLEAN, LL_flatten : BOOLEAN]

GetTelferSpec ==
  /\ \E a \in TelferArgs :
       cd' = [op |-> "get_telfer_spec", kind |-> "ok",
              dict |-> get_telfer_spec(a.telfer, a.zqso, a.igm, NoneArg, a.LL_flatten),
              arg |-> a]
  /\ UNCHANGED <<field, ret, python, run, gui, ev, disk>>

NextTelfer == GetTelferSpec

SpecTelfer == InitConti /\ [][NextTelfer]_vars

\* a call of wfc3_continuum; the while loop takes one step per index drawn
MaxModels == 4    \* extensions of the file of models

\* the extensions tried: TOTNHI in hundredths of a dex, and the quasar
Wfc3Files ==
  UNION {[1..n -> [TOTNHI : {1700, 1800}, QSO : {"J0000+0000", "J122836.05+510746.2"}]] :
           n \in 1..MaxModels}

Wfc3Args ==
  [hdus : Wfc3Files, wfc3_indx : {NoneArg, Some(0), Some(1), Some(-1)}, NHI_max : {1750}]

Wfc3Call ==
  /\ cd.op = "init"
  /\ \E a \in Wfc3Args :
       \E r \in {wfc3_begin(a)} :
         cd' = [op |-> "wfc3_continuum", kind |-> r.kind,
                dict |-> [idx |-> r.idx, models |-> r.models], arg |-> a]
  /\ UNCHANGED <<field, ret, python, run, gui, ev, disk>>

Wfc3Draw ==
  /\ cd.op = "wfc3_continuum" /\ cd.kind = "loop"
  /\ IF RandInt(0, nwfc3(cd.arg.hdus) - 1) = {}
       THEN cd' = [cd EXCEPT !.kind = "ValueError"]
     ELSE \E idx \in RandInt(0, nwfc3(cd.arg.hdus) - 1) :
            \E r \in {wfc3_turn(cd.arg, cd.dict.models, idx)} :
              cd' = [cd EXCEPT !.kind = r.kind, !.dict.idx = r.idx]
  /\ UNCHANGED <<field, ret, python, run, gui, ev, disk>>

NextWfc3 == Wfc3Call \/ Wfc3Draw

SpecWfc3 == InitConti /\ [][NextWfc3]_vars

(***************************************************************************)
(* Calls of run_fitlls: from Python with string arguments, or from the     *)
(* command line                                                            *)
(***************************************************************************)
MaxOpts == 2      \* options given in one call

FileNames == {"a.fits", "b.fits"}

OptionPairs ==
  {<<"-out_file", "o.json">>, <<"-lls_fit_file", "fit.json">>, <<"-smooth", "3.0">>,
   <<"-smooth", "2.5">>, <<"-smooth", "wide">>, <<"-zqso", "3.0">>}

RECURSIVE Flatten(_)
Flatten(pairs) == IF pairs = <<>> THEN <<>> ELSE Head(pairs) \o Flatten(Tail(pairs))

\* the option sequences of at most MaxOpts options
OptionLists == UNION {[1..n -> OptionPairs] : n \in 0..MaxOpts}

RunFromPython ==
  /\ \E f \in FileNames, opts \in OptionLists, asMain \in BOOLEAN :
       LET args == <<f>> \o Flatten(opts)
           r == run_fitlls(args, <<>>, asMain)
       IN run' = [op |-> "python", kind |-> r.kind, args |-> args, asMain |-> asMain,
                  gui |-> r.gui]
  /\ UNCHANGED <<field, ret, python, cd, gui, ev, disk>>

RunFromCommandLine ==
  /\ \E files \in {<<>>} \cup {<<f>> : f \in FileNames}, opts \in OptionLists :
       LET argv == files \o Flatten(opts)
           r == run_fitlls(<<>>, argv, TRUE)
       IN run' = [op |-> "command", kind |-> r.kind, args |-> argv, asMain |-> TRUE,
                  gui |-> r.gui]
  /\ UNCHANGED <<field, ret, python, cd, gui, ev, disk>>

InitRun ==
  /\ field = FieldInit
  /\ ret = NoRet
  /\ python = 2
  /\ cd = NoCall
  /\ run = NoRun
  /\ gui = NoGui
  /\ ev = NoEv
  /\ disk = NoDisk

NextRun == RunFromPython \/ RunFromCommandLine

SpecRun == InitRun /\ [][NextRun]_vars

(***************************************************************************)
(* The GUI at work: construction, then keys pressed with the cursor at     *)
(* (x, y) inside the spectrum                                              *)
(***************************************************************************)
MaxKeys == 3      \* keys pressed in one session

\* where the cursor is when a key is pressed: (x, y)
Cursors == {<<36080, -1000>>, <<36200, -1000>>, <<36640, -40>>}

\* quasar redshifts tried: none, 3.0
QsoRedshifts == {NoneArg, Some(30000)}

\* the default of the constructor, 3 pixels
Smoothings == {Some(30)}

Event(op, key, c, kind) ==
  [op |-> op, key |-> key, x |-> c[1], y |-> c[2], kind |-> kind,
   n |-> IF op = "key" THEN ev.n + 1 ELSE ev.n, new |-> NoNew, plls |-> NoPlls]

Construct ==
  /\ ~gui.built
  /\ \E ispec \in Spectra, zqso \in QsoRedshifts, smooth \in Smoothings :
       LET r == InitFresh(python, ispec, NoneArg, smooth, zqso)
       IN /\ gui' = r.gui
          /\ ev' = [Event("construct", "", <<0, 0>>, r.kind) EXCEPT
                      !.new = [ispec |-> ispec, zqso |-> zqso, smooth |-> smooth,
                               lls_fit_file |-> NoneArg]]
  /\ UNCHANGED <<field, ret, python, cd, run, disk>>

KeyC ==
  /\ gui.built /\ ev.n < MaxKeys
  /\ \E c \in Cursors :
       /\ gui' = update_conti([gui EXCEPT !.conti_dict.Norm = KeyC_Norm(gui, c[1], c[2])])
       /\ ev' = Event("key", "C", c, "ok")
  /\ UNCHANGED <<field, ret, python, cd, run, disk>>

Key1 ==
  /\ gui.built /\ ev.n < MaxKeys
  /\ \E c \in Cursors :
       /\ gui' = update_conti([gui EXCEPT !.conti_dict.tilt = @ + 1])
       /\ ev' = Event("key", "1", c, "ok")
  /\ UNCHANGED <<field, ret, python, cd, run, disk>>

Key2 ==
  /\ gui.built /\ ev.n < MaxKeys
  /\ \E c \in Cursors :
       /\ gui' = update_conti([gui EXCEPT !.conti_dict.tilt = @ - 1])
       /\ ev' = Event("key", "2", c, "ok")
  /\ UNCHANGED <<field, ret, python, cd, run, disk>>

KeyA ==
  /\ gui.built /\ ev.n < MaxKeys
  /\ \E c \in Cursors :
       LET r == add_LLS(python, gui, KeyA_z(c[1]), Num(1730), 20, "None", TRUE)
       IN /\ gui' = r.gui
          /\ ev' = Event("key", "A", c, r.kind)
  /\ UNCHANGED <<field, ret, python, cd, run, disk>>

\* 'F': add the system that auto_plls proposes, if it proposes one
KeyF_Add(py, g, p) ==
  IF p.kind = "ok" /\ p.found THEN add_LLS(py, g, p.zbest, p.NHI, 20, "None", TRUE)
  ELSE [kind |-> p.kind, gui |-> g]

KeyF ==
  /\ gui.built /\ ev.n < MaxKeys
  /\ \E c \in Cursors :
       \E p \in {auto_plls(gui, c[1], c[2])} :
         \E r \in {KeyF_Add(python, gui, p)} :
           /\ gui' = r.gui
           /\ ev' = [Event("key", "F", c, r.kind) EXCEPT !.plls = p]
  /\ UNCHANGED <<field, ret, python, cd, run, disk>>

KeyD ==
  /\ gui.built /\ ev.n < MaxKeys
  /\ \E c \in Cursors :
       LET idx == get_sngl_sel_sys(gui)
           r == IF idx = 0 THEN [kind |-> "ok", gui |-> gui]
                ELSE update_model(python,
                       [gui EXCEPT !.all_abssys = RemoveAt(@, idx), !.sel = 0])
       IN /\ gui' = r.gui
          /\ ev' = Event("key", "D", c, r.kind)
  /\ UNCHANGED <<field, ret, python, cd, run, disk>>

InitGUI ==
  /\ field = FieldInit
  /\ ret = NoRet
  /\ python \in PythonVersions
  /\ cd = NoCall
  /\ run = NoRun
  /\ gui = NoGui
  /\ ev = NoEv
  /\ disk = NoDisk

NextGUI == Construct \/ KeyC \/ Key1 \/ Key2 \/ KeyA \/ KeyF \/ KeyD

SpecGUI == InitGUI /\ [][NextGUI]_vars

(***************************************************************************)
(* Sessions that add forest lines                                          *)
(***************************************************************************)
\* where the cursor is when a forest key is pressed
ForestCursors == {<<36080, 0>>, <<36640, 0>>}

KeyForest ==
  /\ gui.built /\ ev.n < MaxKeys
  /\ \E c \in ForestCursors, inp \in DOMAIN NHI_dict :
       \E r \in {update_model(python, add_forest(gui, inp, KeyForest_z(c[1])))} :
         /\ gui' = r.gui
         /\ ev' = Event("key", inp, c, r.kind)
  /\ UNCHANGED <<field, ret, python, cd, run, disk>>

NextForest == Construct \/ KeyForest \/ KeyA \/ KeyD

SpecForest == InitGUI /\ [][NextForest]_vars

(***************************************************************************)
(* Sessions that write the fit file and start again from it                *)
(***************************************************************************)
WriteOut ==
  /\ gui.built
  /\ \E r \in {write_out(python, gui)} :
       /\ gui' = r.gui
       /\ disk' = r.disk
       /\ ev' = Event("write", "", <<0, 0>>, r.kind)
  /\ UNCHANGED <<field, ret, python, cd, run>>

Reload ==
  /\ disk.exists
  /\ \E smooth \in Smoothings,
        order \in KeysOrders(python, IF disk.text = <<>> THEN <<>> ELSE disk.text[1].LLS) :
       \E r \in {InitFromFile(python, disk.from.spec, NoneArg, smooth, disk, order)} :
         /\ gui' = r.gui
         /\ ev' = [Event("reload", "", <<0, 0>>, r.kind) EXCEPT
                     !.new = [ispec |-> disk.from.spec, zqso |-> NoneArg,
                              smooth |-> smooth, lls_fit_file |-> Some(disk.from.outfil)]]
  /\ UNCHANGED <<field, ret, python, cd, run, disk>>

NextIO == Construct \/ KeyC \/ KeyA \/ WriteOut \/ Reload

SpecIO == InitGUI /\ [][NextIO]_vars

(***************************************************************************)
(* run_fitlls from the command line through to the GUI it creates, and the *)
(* keys pressed on that GUI.  No fit file is on disk in these sessions.    *)
(***************************************************************************)
\* xxgu.read_spec(in_file): the spectrum a file holds
SpecOfFile == [f \in FileNames |-> IF f = "a.fits" THEN "flat" ELSE "lls"]

\* XFitLLSGUI(pargs.in_file, outfil=outfil, smooth=smooth,
\*            lls_fit_file=lls_fit_file, zqso=zqso); the parser's floats are in
\* tenths, the redshifts of the GUI in units of 1e-4
LaunchGUI(py, r) ==
  IF r.kind # "ok" THEN [kind |-> r.kind, gui |-> NoGui]
  ELSE IF r.gui.lls_fit_file.given THEN [kind |-> "IOError", gui |-> NoGui]
  ELSE InitFresh(py, SpecOfFile[r.gui.in_file], r.gui.outfil, r.gui.smooth,
                 IF r.gui.zqso.given THEN Some(1000 * r.gui.zqso.val) ELSE NoneArg)

Launch ==
  /\ ~gui.built /\ run.op = "init"
  /\ \E f \in FileNames, opts \in OptionLists :
       \E r \in {run_fitlls(<<>>, <<f>> \o Flatten(opts), TRUE)} :
         \E c \in {LaunchGUI(python, r)} :
           /\ run' = [op |-> "command", kind |-> c.kind, args |-> <<f>> \o Flatten(opts),
                      asMain |-> TRUE, gui |-> r.gui]
           /\ gui' = c.gui
           /\ ev' = [Event("launch", "", <<0, 0>>, c.kind) EXCEPT
                       !.new = IF r.kind # "ok" THEN NoNew
                               ELSE [ispec |-> f, zqso |-> r.gui.zqso,
                                     smooth |-> r.gui.smooth,
                                     lls_fit_file |-> r.gui.lls_fit_file]]
  /\ UNCHANGED <<field, ret, python, cd, disk>>

NextLaunch == Launch \/ KeyA \/ KeyD

SpecLaunch == InitGUI /\ [][NextLaunch]_vars

(***************************************************************************)
(* Claims about IgmGalaxyField                                             *)
(***************************************************************************)
\* the rows of tab that satisfy Test, in table order
Rows(tab, Test(_)) == SelectSeq(tab, Test)

\* C1: get_associated_galaxies returns exactly the galaxies with
\* |c*(Z - z)/(1+z)| < dv_tol and impact parameter < R (both strict), in table
\* order, with rho[i] the impact parameter of returned row i, and None when no
\* galaxy passes both cuts.
C1_AssociatedExactly ==
  ret.op = "get_associated_galaxies" =>
    LET a == ret.arg
        Near(g) ==
          /\ CLight * (g.Z - a.z) < a.dv_tol * (1000 + a.z)
          /\ CLight * (a.z - g.Z) < a.dv_tol * (1000 + a.z)
          /\ RhoImpact(field, g).num < a.R * RhoImpact(field, g).den
        want == Rows(field.galaxies.rows, Near)
    IN IF want = <<>> THEN ret.kind = "None"
       ELSE /\ ret.kind = "ok"
            /\ ret.tab = want
            /\ Len(ret.rho) = Len(ret.tab)
            /\ \A i \in 1..Len(ret.tab) : ret.rho[i] = RhoImpact(field, ret.tab[i])

\* a call that keeps one galaxy and drops another
C1_Witness ==
  /\ ret.op = "get_associated_galaxies"
  /\ ret.kind = "ok"
  /\ Len(ret.tab) >= 1
  /\ Len(ret.tab) < Len(field.galaxies.rows)

\* the targets of the field that count as observed within theta
IsObserved(f, theta, row) ==
  /\ Separation(f.coord, row.TARG_RA, row.TARG_DEC) < theta
  /\ row.MASK_NAME # Masked
  /\ Len(get_mask_obsdate(f, row.MASK_NAME).dates) > 0

C3_UnobservedIsComplement ==
  ( /\ ret.op = "get_unobserved"
    /\ ~field.targets.isNone /\ ~field.observing.isNone
    /\ \E i \in 1..Len(field.targets.rows) :
          Separation(field.coord, field.targets.rows[i].TARG_RA,
                     field.targets.rows[i].TARG_DEC) < ret.arg.theta )
  => LET Unobs(row) ==
           /\ Separation(field.coord, row.TARG_RA, row.TARG_DEC) < ret.arg.theta
           /\ ~IsObserved(field, ret.arg.theta, row)
     IN /\ ret.kind = "ok"
        /\ ret.tab = Rows(field.targets.rows, Unobs)

\* C4: get_observed and get_unobserved raise ValueError whenever targets or
\* observing is None, get_mask_obsdate raises ValueError whenever observing is
\* None, and the call leaves every attribute of the field as it was.
C4_ValueErrorWithoutTables ==
  [][ /\ ( /\ ret'.op \in {"get_observed", "get_unobserved"}
           /\ (field.targets.isNone \/ field.observing.isNone) )
         => (ret'.kind = "ValueError" /\ field' = field)
      /\ (ret'.op = "get_mask_obsdate" /\ field.observing.isNone)
         => (ret'.kind = "ValueError" /\ field' = field) ]_vars

\* get_unobserved called with targets filled and observing still None
C4_Witness ==
  /\ ret.op = "get_unobserved"
  /\ ret.kind = "ValueError"
  /\ ~field.targets.isNone
  /\ field.observing.isNone

\* C5: with the observing table filled, get_mask_obsdate returns, for every
\* mask name, the list of the unmasked DATE_OBS values of the rows with that
\* MASK_NAME (the empty list when there is no such row).
C5_ObsdateExactly ==
  (ret.op = "get_mask_obsdate" /\ ~field.observing.isNone) =>
    LET Mine(o) == o.MASK_NAME = ret.arg.mask /\ o.DATE_OBS # Masked
        want == Rows(field.observing.rows, Mine)
    IN /\ ret.kind = "ok"
       /\ ret.dates = [k \in 1..Len(want) |-> want[k].DATE_OBS]

(***************************************************************************)
(* Claims about the continuum dictionary                                   *)
(***************************************************************************)
\* C6: init_conti_dict raises ValueError exactly when piv_wv2 is given and
\* piv_wv2 > piv_wv; in every other case it returns a dict holding the given
\* Norm, tilt, tilt2, piv_wv, igm, fN_gamma and LL_flatten, with the key
\* piv_wv2 if and only if piv_wv2 was given, and then piv_wv2 <= piv_wv.
C6_ContiDictOrValueError ==
  cd.op = "init_conti_dict" =>
    LET a == cd.arg
        bad == a.piv_wv2.given /\ a.piv_wv2.val > a.piv_wv
    IN IF bad THEN cd.kind = "ValueError"
       ELSE /\ cd.kind = "ok"
            /\ \A k \in {"Norm", "tilt", "tilt2", "piv_wv", "igm", "fN_gamma", "LL_flatten"} :
                  k \in DOMAIN cd.dict /\ cd.dict[k] = a[k]
            /\ ("piv_wv2" \in DOMAIN cd.dict) <=> a.piv_wv2.given
            /\ a.piv_wv2.given =>
                 (cd.dict["piv_wv2"] = a.piv_wv2.val /\ cd.dict["piv_wv2"] <= cd.dict["piv_wv"])

(***************************************************************************)
(* Claims about the LLS fitting GUI                                        *)
(***************************************************************************)
\* C7: constructing XFitLLSGUI with zqso None and no lls_fit_file completes
\* without error, leaves zqso None, a base continuum of unity at every pixel and
\* a continuum dictionary whose Norm is the median flux
C7_ConstructWithoutZqso ==
  (ev.op = "construct" /\ ~ev.new.zqso.given /\ ~ev.new.lls_fit_file.given) =>
    /\ ev.kind = "ok"
    /\ gui.built
    /\ ~gui.zqso.given
    /\ gui.base_continuum = Ones
    /\ gui.conti_dict.Norm = Median(FluxOf(gui.spec))

\* z, NHI, b-value and comment of the systems, in list order
Systems(g) ==
  [i \in 1..Len(g.all_abssys) |->
     [z |-> g.all_abssys[i].zabs, NHI |-> g.all_abssys[i].NHI,
      bval |-> g.all_abssys[i].bval, comment |-> g.all_abssys[i].comment]]

\* C8: a press of 'F' raises no error; with fewer than 10 over-absorbed pixels
\* at the best offset it appends exactly one system, with the NHI guessed from
\* the cursor flux and b = 20 km/s, and leaves the others as they were;
\* otherwise the systems, count_lls and the absorption model are unchanged
C8_AutoPllsAddsOneOrNothing ==
  [][(ev'.op = "key" /\ ev'.key = "F") =>
       /\ ev'.kind = "ok"
       /\ IF ev'.plls.nbad < BadMax
            THEN /\ Len(gui'.all_abssys) = Len(gui.all_abssys) + 1
                 /\ SubSeq(gui'.all_abssys, 1, Len(gui.all_abssys)) = gui.all_abssys
                 /\ gui'.all_abssys[Len(gui'.all_abssys)].NHI
                      = GuessNHI(ev'.y, PllsConti(gui), ArgMinWave(ev'.x * 10000))
                 /\ gui'.all_abssys[Len(gui'.all_abssys)].bval = 20
                 /\ gui'.count_lls = gui.count_lls + 1
          ELSE /\ gui'.all_abssys = gui.all_abssys
               /\ gui'.count_lls = gui.count_lls
               /\ gui'.lls_model = gui.lls_model
               /\ ~ev'.plls.found]_vars

\* C9: a GUI constructed from the file that write_out left has the systems of
\* the GUI that wrote it, in the same order with the same z, NHI, b-value and
\* comment, and the same continuum dictionary, base continuum, smooth and zqso
C9_RoundTrip ==
  ev.op = "reload" =>
    /\ ev.kind = "ok"
    /\ Systems(gui) = Systems(disk.from)
    /\ gui.conti_dict = disk.from.conti_dict
    /\ gui.base_continuum = disk.from.base_continuum
    /\ gui.smooth = disk.from.smooth
    /\ gui.zqso = disk.from.zqso

\* C14: '6', '7', '8' or '9' at cursor wavelength x appends one forest system
\* with log NHI 12, 13, 14 or 15, redshift x/1215.6701 - 1 and the lines
\* HI 1215, HI 1025 and HI 972 with b = 20 km/s each; the absorption model
\* then holds the optical depth of every forest system, with or without an LLS
C14_ForestKeyAddsToModel ==
  [][(ev'.op = "key" /\ ev'.key \in {"6", "7", "8", "9"}) =>
       LET z == KeyForest_z(ev'.x)
           nhi == CASE ev'.key = "6" -> 1200 [] ev'.key = "7" -> 1300
                    [] ev'.key = "8" -> 1400 [] OTHER -> 1500
           last == gui'.all_forest[Len(gui'.all_forest)]
       IN /\ ev'.kind = "ok"
          /\ Len(gui'.all_forest) = Len(gui.all_forest) + 1
          /\ SubSeq(gui'.all_forest, 1, Len(gui.all_forest)) = gui.all_forest
          /\ last.zabs = z /\ last.NHI = nhi
          /\ [k \in DOMAIN last.lines |-> last.lines[k].name] = <<"HI 1215", "HI 1025", "HI 972">>
          /\ \A k \in DOMAIN last.lines : last.lines[k].b = 20
          /\ ~gui'.lls_model.isNone
          /\ \E tau \in {AddArrays(TauMulti(gui'.all_abssys), TauForest(gui'.all_forest))} :
               gui'.lls_model.L = Array([i \in 1..NPix |-> 0 - tau[i]])]_vars

\* C15: on a GUI whose continuum dictionary has no piv_wv2 the continuum is
\* base_continuum * Norm * (wavelength/piv_wv)^tilt at every pixel after every
\* key; '1' adds 0.1 to tilt and '2' takes 0.1 off, both leaving Norm; 'C' at
\* (x, y) sets Norm to y / (base_continuum[pixel nearest x] * (x/piv_wv)^tilt)
\* and leaves tilt.  (Fluxes and Norm are logarithms here, so products are sums.)
C15_ContinuumModel ==
  [][(gui'.built /\ "piv_wv2" \notin DOMAIN gui'.conti_dict) =>
       LET d == gui.conti_dict
           e == gui'.conti_dict
       IN /\ gui'.continuum =
               Array([i \in 1..NPix |->
                        gui'.base_continuum[i] + e.Norm + PowLog(Wave[i], e.piv_wv, e.tilt)])
          /\ (ev'.op = "key" /\ ev'.key = "1") => (e.tilt = d.tilt + 1 /\ e.Norm = d.Norm)
          /\ (ev'.op = "key" /\ ev'.key = "2") => (e.tilt = d.tilt - 1 /\ e.Norm = d.Norm)
          /\ (ev'.op = "key" /\ ev'.key = "C") =>
               /\ e.tilt = d.tilt
               /\ e.Norm = ev'.y - (Px(gui.base_continuum, ArgMinWave(ev'.x * 10000))
                                    + PowLog(ev'.x, d.piv_wv, d.tilt))
          /\ ev'.op = "key" =>
               /\ e.piv_wv = d.piv_wv
               /\ gui'.base_continuum = gui.base_continuum
               /\ ev'.key \notin {"C", "1", "2"} => e = d]_vars

\* a 'C' pressed after the tilt was raised twice
C15_Witness ==
  gui.built /\ ev.op = "key" /\ ev.key = "C" /\ gui.conti_dict.tilt = 2
    /\ gui.continuum # gui.base_continuum

\* the score of offset kk as the claim words it: the pixels k of the padded
\* window at which the template moved kk pixels redward is below 0.7 and the
\* template times the continuum is below flux - 1.5 sigma
Score(conti, floor, lls_flux, NHI, amin, amax, nroll, kk) ==
  Cardinality({k \in (amin - nroll)..(amax + nroll) :
     /\ NHI.k = "num" /\ ~conti.nan
     /\ k - kk \in amin..amax
     /\ Below07(Px(lls_flux, k - kk))
     /\ Px(lls_flux, k - kk) + Px(conti.L, Wrap(k)) < Px(floor, Wrap(k))})

\* what C16 says of a press of 'F' that has offsets to try, apart from the
\* bound on the redshift proposed
SlideAndScore(g, x, p) ==
  \E conti \in {PllsConti(g)}, floor \in {FloorOf(g.spec)},
     lls_flux \in {PllsTemplate(PllsTau(p.z, p.NHI))},
     apix \in {PllsApix(p.z, PllsZmin(g, p.z).val)} :
    \E score \in {SubSeq([i \in 1..p.nroll |->
                             Score(conti, floor, lls_flux, p.NHI, SetMin(apix), SetMax(apix),
                                   p.nroll, i - 1)], 1, p.nroll)} :
      /\ p.kind = "ok"
      /\ p.ximn = ArgMinWave(x * 10000)
      /\ p.ibest \in 0..(p.nroll - 1)
      /\ \A kk \in 0..(p.nroll - 1) : score[p.ibest + 1] <= score[kk + 1]
      /\ \A kk \in 0..(p.ibest - 1) : score[p.ibest + 1] < score[kk + 1]
      /\ p.nbad = score[p.ibest + 1]
      /\ p.ximn + p.ibest \in Pixels
      /\ p.zbest = FixDiv(Px(Wave, p.ximn + p.ibest), 9117, 4) - 10000

RECURSIVE OptionValue(_, _)
OptionValue(tokens, flag) ==
  IF Len(tokens) < 2 THEN NoneArg
  ELSE LET rest == OptionValue(Tail(Tail(tokens)), flag)
       IN IF rest.given THEN rest
          ELSE IF tokens[1] = flag THEN Some(tokens[2]) ELSE NoneArg

\* C10: run_fitlls(filename, ...) called from Python with a file-name string
\* launches the GUI on that file: in_file equals the first argument, and the
\* remaining string arguments are parsed as the options -out_file, -smooth,
\* -lls_fit_file and -zqso.
C10_RunOnGivenFile ==
  (run.op = "python" /\ \A k \in 1..Len(run.args) : run.args[k] # "wide") =>
    LET opts == Tail(run.args)
        AsFloat(v) == IF v.given THEN Some(FloatOf[v.val]) ELSE NoneArg
    IN /\ run.kind = "ok"
       /\ run.gui.in_file = run.args[1]
       /\ run.gui.outfil = OptionValue(opts, "-out_file")
       /\ run.gui.lls_fit_file = OptionValue(opts, "-lls_fit_file")
       /\ run.gui.smooth = AsFloat(OptionValue(opts, "-smooth"))
       /\ run.gui.zqso = AsFloat(OptionValue(opts, "-zqso"))

\* C11: when -smooth is not given on the command line, the GUI is created with
\* smooth = 3 pixels, and outfil, lls_fit_file and zqso are None when not
\* given; every key then succeeds and the absorption model of that GUI is
\* smoothed with a FWHM of 3 pixels.
C11_DefaultSmooth ==
  (run.op = "command" /\ gui.built /\ ~OptionValue(Tail(run.args), "-smooth").given) =>
    /\ gui.smooth = Some(30)
    /\ ev.kind = "ok"
    /\ (~gui.lls_model.isNone => gui.lls_model.fwhm = Some(30))
    /\ \A flag \in {"-out_file", "-lls_fit_file", "-zqso"} :
         ~OptionValue(Tail(run.args), flag).given
           => ~run.gui[IF flag = "-out_file" THEN "outfil" ELSE Dest(flag)].given

(***************************************************************************)
(* Claims about the continuum module                                       *)
(***************************************************************************)
\* the composite in the observer frame before any flattening: scaled, and
\* attenuated by the intergalactic medium when igm is asked for
Unflattened(a) ==
  IF a.igm THEN TelferIgm(TelferScaled(a.telfer), a.zqso) ELSE TelferScaled(a.telfer)

\* C12: with LL_flatten=True the flux returned at every pixel whose rest
\* wavelength is below 911.7 A is the median of the flux within 3 A of 914 A
\* rest, whether igm is True or False; with LL_flatten=False those pixels
\* keep their flux.
C12_FlattenBelowLL ==
  cd.op = "get_telfer_spec" =>
    LET a == cd.arg
        f_LL == Median([i \in {k \in DOMAIN TelferWrest : Abs(TelferWrest[k] - 9140) < 30}
                          |-> Unflattened(a)[i]])
    IN \A i \in DOMAIN TelferWrest :
         TelferWrest[i] < 9117 =>
           cd.dict.flux[i] = IF a.LL_flatten THEN f_LL ELSE Unflattened(a)[i]

\* C13: with wfc3_indx=None every index the random selection draws is a valid
\* index into the list of loaded models, and the index returned names a
\* loaded model with TOTNHI <= NHI_max whose quasar is not an excluded one;
\* with wfc3_indx given the index returned is wfc3_indx.
C13_IndexOfLoadedModel ==
  cd.op = "wfc3_continuum" =>
    IF cd.arg.wfc3_indx.given
      THEN cd.kind = "ok" => cd.dict.idx = cd.arg.wfc3_indx
    ELSE /\ cd.kind # "IndexError"
         /\ cd.dict.idx.given => cd.dict.idx.val \in 0..(Len(cd.dict.models) - 1)
         /\ cd.kind = "ok" =>
              /\ cd.dict.models[cd.dict.idx.val + 1].TOTNHI <= cd.arg.NHI_max
              /\ cd.dict.models[cd.dict.idx.val + 1].QSO \notin ExcludedQSO

=============================================================================
